---- MODULE Spec2Model ----
(***************************************************************************)
(* Model of the paragraph collectors of the repository:                    *)
(*   generate_spanish_paragraphs_v2.py     (variant "v2", domain-aware)    *)
(*   generate_spanish_paragraphs.py        (variant "orig")                *)
(*   generate_spanish_paragraphs_fixed.py  (variant "fixed")               *)
(* A text is a sequence of one-character strings.  A URL is a record of    *)
(* its host labels and its path.  The network is the environment: every    *)
(* fetch draws its outcome (an exception, a status, a body, a final URL)   *)
(* from a small set.                                                       *)
(***************************************************************************)
EXTENDS Integers, Sequences, FiniteSets, TLC

(***************************************************************************)
(* Bounds of the model.                                                    *)
(***************************************************************************)
\* number of configured sources taken into one run's registry
NumSources == 2
\* largest quota given on the command line (--n)
MaxN == 2
\* largest number of entries of one parsed feed
MaxEntries == 2
\* largest number of pieces of a text a helper function is applied to
MaxPieces == 3

(***************************************************************************)
(* Program constants.                                                      *)
(***************************************************************************)
MIN_PARAGRAPH_LEN == 120
TARGET_ORIG == 100
TARGET_FIXED == 1000
MIN_WORDS == 20
\* the number of paragraphs the docstring of orig and fixed announces
DOCUMENTED_TARGET == 100
HTTP_OK == 200

Variants == {"v2", "orig", "fixed"}

(***************************************************************************)
(* Texts.                                                                  *)
(***************************************************************************)
NL == "\n"
\* what str.strip() and str.split() of Python treat as whitespace
WS == {" ", "\n", "\t"}

Rep(c, n) == [i \in 1..n |-> c]

\* the separator the variant's source writes for a line break: the source of
\* "orig" writes every escape doubled, so its '\\n' is a backslash and an n
LineSep(v) == IF v = "orig" THEN <<"\\", "n">> ELSE <<NL>>

RECURSIVE Join(_, _)
\* sep.join(parts)
Join(parts, sep) ==
    IF parts = <<>> THEN <<>>
    ELSE IF Len(parts) = 1 THEN parts[1]
    ELSE parts[1] \o sep \o Join(Tail(parts), sep)

SetMin(S) == CHOOSE x \in S : \A y \in S : x <= y
SetMax(S) == CHOOSE x \in S : \A y \in S : y <= x

\* p.strip(): without the whitespace at both ends
Strip(s) ==
    LET inner == {i \in 1..Len(s) : s[i] \notin WS}
    IN IF inner = {} THEN <<>> ELSE SubSeq(s, SetMin(inner), SetMax(inner))

\* len(paragraph.split()): the number of maximal runs of non-whitespace
WordCount(s) ==
    Cardinality({i \in 1..Len(s) :
        s[i] \notin WS /\ (i = 1 \/ s[i - 1] \in WS)})

MatchesAt(s, sep, i) ==
    /\ i + Len(sep) - 1 <= Len(s)
    /\ \A k \in 1..Len(sep) : s[i + k - 1] = sep[k]

RECURSIVE SplitFrom(_, _, _)
\* text.split(sep) of the text from start on: cut at the leftmost match,
\* go on behind it
SplitFrom(s, sep, start) ==
    LET ms == {i \in start..Len(s) : MatchesAt(s, sep, i)}
    IN IF ms = {} THEN <<SubSeq(s, start, Len(s))>>
       ELSE <<SubSeq(s, start, SetMin(ms) - 1)>>
            \o SplitFrom(s, sep, SetMin(ms) + Len(sep))

SplitOn(s, sep) == SplitFrom(s, sep, 1)

\* the last index of the run of whitespace that starts right after i
WsRunEnd(s, i) ==
    SetMin({k \in i..Len(s) : k = Len(s) \/ s[k + 1] \notin WS})

\* the end of the match of \n\s*\n at i (greedy \s*), or 0 when there is none
BlankMatchEnd(s, i) ==
    IF s[i] # NL THEN 0
    ELSE LET e == WsRunEnd(s, i)
             js == {j \in (i + 1)..e : s[j] = NL}
         IN IF js = {} THEN 0 ELSE SetMax(js)

RECURSIVE SplitBlankFrom(_, _)
\* re.split(r"\n\s*\n", text) of the text from start on
SplitBlankFrom(s, start) ==
    LET ms == {i \in start..Len(s) : BlankMatchEnd(s, i) # 0}
    IN IF ms = {} THEN <<SubSeq(s, start, Len(s))>>
       ELSE <<SubSeq(s, start, SetMin(ms) - 1)>>
            \o SplitBlankFrom(s, BlankMatchEnd(s, SetMin(ms)) + 1)

SplitBlank(s) == SplitBlankFrom(s, 1)

\* the blocks first_long_paragraph iterates over
Blocks(v, text) ==
    IF v = "v2" THEN SplitBlank(text) ELSE SplitOn(text, LineSep(v))

\* mutant: every block is taken, whatever its length
FirstLong_Head(blocks, min_len) ==
    IF blocks = <<>> THEN <<>> ELSE Strip(Head(blocks))

RECURSIVE FirstLong(_, _)
\* the loop of first_long_paragraph: the first stripped block of min_len or more
FirstLong(blocks, min_len) ==
    IF blocks = <<>> THEN <<>>
    ELSE LET p == Strip(Head(blocks))
         IN IF Len(p) >= min_len THEN p ELSE FirstLong(Tail(blocks), min_len)

first_long_paragraph(v, text, min_len) == FirstLong(Blocks(v, text), min_len)

\* the index of the first "}}" at or after i, or 0
ClosingAt(s, i) ==
    LET cs == {j \in i..(Len(s) - 1) : s[j] = "}" /\ s[j + 1] = "}"}
    IN IF cs = {} THEN 0 ELSE SetMin(cs)

RECURSIVE StripTemplatesFrom(_, _)
\* re.sub(r"\{\{.*?\}\}", "", text, flags=re.DOTALL) of the text from start
\* on: the leftmost "{{" that has a "}}" behind it is cut out up to the first
\* such "}}"
StripTemplatesFrom(s, start) ==
    LET os == {i \in start..(Len(s) - 1) :
                  s[i] = "{" /\ s[i + 1] = "{" /\ ClosingAt(s, i + 2) # 0}
    IN IF os = {} THEN SubSeq(s, start, Len(s))
       ELSE SubSeq(s, start, SetMin(os) - 1)
            \o StripTemplatesFrom(s, ClosingAt(s, SetMin(os) + 2) + 2)

StripTemplates(s) == StripTemplatesFrom(s, 1)

(***************************************************************************)
(* URLs and the registrable domain.                                        *)
(***************************************************************************)
Url(host, path) == [host |-> host, path |-> path]

\* the empty string where a URL is expected: Python treats it as false
EmptyUrl == Url(<<>>, <<>>)

\* the public suffixes the hosts of the model end in
PublicSuffixes == {"com", "es", "org"}

\* tldextract.extract(url): the suffix is the public suffix the host ends in,
\* the domain the label before it; a host with no public suffix keeps its last
\* label as the domain and has an empty suffix
Extract(url) ==
    LET h == url.host
        n == Len(h)
    IN IF n = 0 THEN [subdomain |-> <<>>, domain |-> "", suffix |-> ""]
       ELSE IF h[n] \in PublicSuffixes
            THEN IF n = 1
                 THEN [subdomain |-> <<>>, domain |-> "", suffix |-> h[n]]
                 ELSE [subdomain |-> SubSeq(h, 1, n - 2), domain |-> h[n - 1],
                       suffix |-> h[n]]
            ELSE [subdomain |-> SubSeq(h, 1, n - 1), domain |-> h[n],
                  suffix |-> ""]

\* f"{ext.domain}.{ext.suffix}", as the pieces the f-string puts together
domain(url) == LET ext == Extract(url) IN <<ext.domain, ".", ext.suffix>>

(***************************************************************************)
(* The texts and documents the network serves.                             *)
(***************************************************************************)
\* 21 words of five letters: 125 characters
W21 == Join([i \in 1..21 |-> Rep("a", 5)], <<" ">>)
\* one word of exactly MIN_PARAGRAPH_LEN characters
A120 == Rep("b", MIN_PARAGRAPH_LEN)
\* a paragraph of half the minimum
A60 == Rep("d", MIN_PARAGRAPH_LEN \div 2)

\* a fetched HTML page, as the cleaned texts of its <p> elements
\* ([clean_html(p.get_text()) for p in soup.find_all("p")])
HtmlBodies == { <<>>, <<W21>>, <<A60, A60>> }

\* a fetched plain text (a Gutenberg dump, a wikitext page, a summary extract)
TextBodies ==
    { <<>>,
      <<"s", "h", "o", "r", "t", NL, NL>> \o A120,
      <<"{", "{", "t", "}", "}">> \o W21 }

(***************************************************************************)
(* Fetches.  The outcome of requests.get is an exception or a response.    *)
(***************************************************************************)
\* StopIteration is a subclass of Exception that main() handles on its own
ExcKinds == {"Exception", "StopIteration"}

Raised(e) == [exc |-> e, status |-> 0, body |-> <<>>, url |-> EmptyUrl]
Response(st, b, u) == [exc |-> "none", status |-> st, body |-> b, url |-> u]

\* where a request of url may end when the server redirects it
Moved(url) == Url(url.host, <<"moved">>)

\* the final URLs of a request of url: its own, or that of a redirect
FinalsOf(url) == {url, Moved(url)}

\* every outcome of one fetch of req: an exception, a response that is not a
\* 200, or a 200 with one of the bodies, ended at one of the final URLs
Fetches(req, bodies, finals) ==
    {Raised(e) : e \in ExcKinds}
    \cup {Response(404, <<>>, req)}
    \cup {Response(HTTP_OK, b, u) : b \in bodies, u \in finals}

(***************************************************************************)
(* The source adapters.  An adapter called on the outcomes of its fetches  *)
(* returns or raises: exc is "none" or the exception it raises, recs the   *)
(* records (paragraph, tipo, url) it returns, n the fetches it made, final *)
(* the URL the fetch of the document ended at.                             *)
(***************************************************************************)
Returns(rec, n, final) ==
    [exc |-> "none", recs |-> <<rec>>, n |-> n, final |-> final]
Raises(e, n) == [exc |-> e, recs |-> <<>>, n |-> n, final |-> EmptyUrl]

\* one entry of the loop of paragraphs_from_rss: the records it yields (none
\* or one); every exception of the fetch is caught and skips the entry
rss_entry(v, tipo, link, resp) ==
    IF link = EmptyUrl THEN <<>>
    ELSE IF resp.exc # "none" THEN <<>>
    ELSE IF resp.status # HTTP_OK THEN <<>>
    ELSE LET paragraph ==
                 first_long_paragraph(v, Join(resp.body, LineSep(v)),
                                      MIN_PARAGRAPH_LEN)
         IN IF paragraph # <<>> THEN << <<paragraph, tipo, link>> >> ELSE <<>>

\* why the loop of paragraphs_from_rss goes on to the next entry without a
\* yield: the entry has no link, the fetch or the parsing raised, the status
\* is not 200, or the page has no long paragraph
rss_skip(v, link, resp) ==
    IF link = EmptyUrl THEN "nolink"
    ELSE IF resp.exc # "none" THEN "exception"
    ELSE IF resp.status # HTTP_OK THEN "status"
    ELSE "noparagraph"

\* the two addresses of a Gutenberg text; gid is the id as the f-string prints it
GutenbergCache(gid) ==
    Url(<<"www", "gutenberg", "org">>, <<"cache", "epub", gid, "pg", gid, ".txt">>)
GutenbergFiles(gid) ==
    Url(<<"www", "gutenberg", "org">>, <<"files", gid, gid, "-0.txt">>)

\* v2 tries two addresses and raises when neither gives a paragraph; the other
\* variants fetch one and return whatever first_long_paragraph gives
paragraph_from_gutenberg(v, gid, r1, r2) ==
    IF v = "v2"
    THEN IF r1.exc # "none" THEN Raises(r1.exc, 1)
         ELSE LET p1 == first_long_paragraph(v, r1.body, MIN_PARAGRAPH_LEN)
              IN IF r1.status = HTTP_OK /\ p1 # <<>>
                 THEN Returns(<<p1, "novela", GutenbergCache(gid)>>, 1,
                              GutenbergCache(gid))
                 ELSE IF r2.exc # "none" THEN Raises(r2.exc, 2)
                 ELSE LET p2 == first_long_paragraph(v, r2.body,
                                                     MIN_PARAGRAPH_LEN)
                      IN IF r2.status = HTTP_OK /\ p2 # <<>>
                         THEN Returns(<<p2, "novela", GutenbergFiles(gid)>>, 2,
                                      GutenbergFiles(gid))
                         ELSE Raises("Exception", 2)
    ELSE IF r1.exc # "none" THEN Raises(r1.exc, 1)
         ELSE IF r1.status # HTTP_OK THEN Raises("Exception", 1)
         ELSE Returns(<<first_long_paragraph(v, r1.body, MIN_PARAGRAPH_LEN),
                        "novela", GutenbergFiles(gid)>>, 1, GutenbergFiles(gid))

paragraph_from_cervantes(v, url, resp) ==
    IF resp.exc # "none" THEN Raises(resp.exc, 1)
    ELSE IF resp.status # HTTP_OK THEN Raises("Exception", 1)
    ELSE Returns(<<first_long_paragraph(v, Join(resp.body, LineSep(v)),
                                        MIN_PARAGRAPH_LEN),
                   "novela", url>>, 1, resp.url)

paragraph_from_wikisource(v, url, resp) ==
    IF resp.exc # "none" THEN Raises(resp.exc, 1)
    ELSE IF resp.status # HTTP_OK THEN Raises("Exception", 1)
    ELSE Returns(<<first_long_paragraph(v, StripTemplates(resp.body),
                                        MIN_PARAGRAPH_LEN),
                   "cuento", url>>, 1, resp.url)

\* resp.body is data["extract"], resp.url is the page URL of data (the empty
\* string when the answer has none); the status is not looked at
random_wikipedia_paragraph(v, resp) ==
    IF resp.exc # "none" THEN Raises(resp.exc, 1)
    ELSE LET paragraph == first_long_paragraph(v, resp.body, MIN_PARAGRAPH_LEN)
         IN IF paragraph # <<>> /\ resp.url # EmptyUrl
            THEN Returns(<<paragraph, "enciclopedia", resp.url>>, 1, resp.url)
            ELSE Raises("Exception", 1)

\* url = resp.url: the address the redirect ended at
random_cuento_paragraph(v, resp) ==
    IF resp.exc # "none" THEN Raises(resp.exc, 1)
    ELSE IF resp.status # HTTP_OK THEN Raises("Exception", 1)
    ELSE Returns(<<first_long_paragraph(v, Join(resp.body, LineSep(v)),
                                        MIN_PARAGRAPH_LEN),
                   "cuento", resp.url>>, 1, resp.url)

(***************************************************************************)
(* The configured sources.  A sample of each list of the scripts, in the   *)
(* order in which the script builds its producers.                         *)
(***************************************************************************)
Source(kind, tipo, origin) == [kind |-> kind, tipo |-> tipo, origin |-> origin]

Sources ==
    [ rssNoticia |-> Source("rss", "noticia",
                            Url(<<"feeds", "elpais", "com">>, <<"rss">>)),
      rssNoticia2 |-> Source("rss", "noticia",
                            Url(<<"www", "elmundo", "es">>, <<"rss">>)),
      rssBlog    |-> Source("rss", "blog",
                            Url(<<"www", "xataka", "com">>, <<"rss">>)),
      gutenberg  |-> Source("gutenberg", "novela", "2000"),
      cervantes  |-> Source("cervantes", "novela",
                            Url(<<"www", "cervantesvirtual", "com">>,
                                <<"obra-visor", "la-barraca-0", "html">>)),
      wikisource |-> Source("wikisource", "cuento",
                            Url(<<"es", "wikisource", "org">>,
                                <<"wiki", "Yo_y_mi_gato">>)),
      wikipedia  |-> Source("wikipedia", "enciclopedia",
                            Url(<<"es", "wikipedia", "org">>,
                                <<"api", "rest_v1", "page", "random", "summary">>)),
      cuento     |-> Source("cuento", "cuento",
                            Url(<<"cuentosparadormir", "com">>, <<"random">>)) ]

\* the producers in the order build_generators (v2) or main (orig, fixed)
\* appends them, before the shuffle: one producer of each list and tipo (the
\* second "noticia" feed behaves as the first and is left to the scenario)
BuildOrder(v) ==
    IF v = "v2"
    THEN <<"rssNoticia", "rssBlog", "gutenberg", "cervantes", "wikisource",
           "wikipedia", "cuento">>
    ELSE <<"rssNoticia", "rssBlog", "wikipedia", "gutenberg", "cuento">>

SourceIds(v) == {BuildOrder(v)[i] : i \in 1..Len(BuildOrder(v))}

\* the links the entries of the feeds carry: two pages of one site and one of
\* another; an entry may also have no link
Links ==
    { Url(<<"www", "elpais", "com">>, <<"a">>),
      Url(<<"elpais", "com">>, <<"b">>),
      Url(<<"www", "elmundo", "es">>, <<"a">>) }

\* the pages the random-summary endpoint may name
WikipediaPages ==
    { Url(<<"es", "wikipedia", "org">>, <<"wiki", "X">>), EmptyUrl }

\* where the random-story address may redirect to
CuentoPages ==
    { Url(<<"cuentosparadormir", "com">>, <<"c1">>),
      Url(<<"cuentosparadormir", "com">>, <<"c2">>) }

\* every result the call gen() of a list producer may have: the adapter runs on
\* the outcomes of its fetches
InvokeResults(v, id) ==
    LET src == Sources[id]
    IN CASE src.kind = "gutenberg" ->
              LET F == Fetches(EmptyUrl, TextBodies, {EmptyUrl})
              IN {paragraph_from_gutenberg(v, src.origin, r1, r2) :
                     r1 \in F, r2 \in F}
         [] src.kind = "cervantes" ->
              {paragraph_from_cervantes(v, src.origin, r) :
                  r \in Fetches(src.origin, HtmlBodies, {src.origin})}
         [] src.kind = "wikisource" ->
              {paragraph_from_wikisource(v, src.origin, r) :
                  r \in Fetches(src.origin, TextBodies, FinalsOf(src.origin))}
         [] src.kind = "wikipedia" ->
              {random_wikipedia_paragraph(v, r) :
                  r \in Fetches(src.origin, TextBodies, WikipediaPages)}
         [] src.kind = "cuento" ->
              {random_cuento_paragraph(v, r) :
                  r \in Fetches(src.origin, HtmlBodies, CuentoPages)}

\* every outcome of one entry of a feed: the records the generator yields for
\* it, why it yields none, the fetches it makes (none for an entry without a
\* link) and where the fetch ended
EntryResults(v, tipo) ==
    UNION { { LET recs == rss_entry(v, tipo, link, resp)
              IN [recs |-> recs,
                  why |-> IF recs = <<>> THEN rss_skip(v, link, resp)
                          ELSE "none",
                  n |-> IF link = EmptyUrl THEN 0 ELSE 1,
                  final |-> IF recs = <<>> THEN EmptyUrl ELSE resp.url] :
                 resp \in Fetches(link, HtmlBodies, FinalsOf(link)) } :
            link \in Links \cup {EmptyUrl} }

\* the feed producers in the order the loop over RSS_SOURCES builds them
RssBuilt(v) == SelectSeq(BuildOrder(v), LAMBDA id : Sources[id].kind = "rss")

\* mutant: the producer reads the loop variable tipo when it is called, which
\* then holds the group of the feed built last
BoundTipo_Late(v, id) == Sources[RssBuilt(v)[Len(RssBuilt(v))]].tipo

\* lambda r=rss, t=tipo: the default argument is evaluated when the producer
\* is built, so the producer keeps the group its feed is listed under
BoundTipo(v, id) == Sources[id].tipo

\* the two sets above, computed once for every variant and source
InvokeTable ==
    [v \in Variants |->
        [id \in {i \in SourceIds(v) : Sources[i].kind # "rss"} |->
            InvokeResults(v, id)]]

EntryTable ==
    [v \in Variants |->
        [id \in {i \in DOMAIN Sources : Sources[i].kind = "rss"} |->
            EntryResults(v, BoundTipo(v, id))]]

(***************************************************************************)
(* The run of main().                                                      *)
(***************************************************************************)
VARIABLES
    variant,     \* which of the three scripts runs
    goal,        \* the quota: args.n (v2), the literal of the loop (orig, fixed)
    registry,    \* the configured sources of this run
    gens,        \* the producers in shuffled order
    idx,         \* the position of the for loop over gens
    pc,          \* "Idle", "Loop", "Drain", "Report", "Done"
    cur,         \* the iterator gen() returned, while it is drained
    collected,   \* the accumulated records (paragraph, tipo, url)
    seen_urls,   \* the set of URLs of accepted records
    exit,        \* how the loop was left: "none", "break", "exhausted"
    output,      \* what the run printed and saved
    candidates,  \* history: the URLs of the records of MIN_PARAGRAPH_LEN
                 \* characters or more the producers handed to the loop
    contributors,\* history: the producers a record of collected came from
    invoked,     \* history: the producers called (gen()) so far, in order
    last,        \* history: what the last step did (the event, the
                 \* producer, the record handed over, the exception
                 \* raised or the reason of a skipped entry, the fetches
                 \* made, the URL the fetch of the record ended at)
    call         \* a helper function applied on its own: its name, its
                 \* arguments and, once applied, its result

\* what no step of the loop changes
static == <<variant, goal, registry, call>>

vars == <<variant, goal, registry, gens, idx, pc, cur, collected, seen_urls,
          exit, output, candidates, contributors, invoked, last, call>>

\* the quotas tried on the command line of v2
NValues == 0..MaxN

\* the quota of a run: --n in v2, the number written in the loop otherwise
Target(v, n) ==
    IF v = "v2" THEN n ELSE IF v = "orig" THEN TARGET_ORIG ELSE TARGET_FIXED

\* an iterator: the list a list producer returned (items, and final, the URL
\* its fetch ended at), or a feed generator (parsed, left: the entries not
\* yet looked at, failed: whether an entry has failed so far)
NoIter ==
    [kind |-> "none", items |-> <<>>, parsed |-> FALSE, left |-> 0,
     failed |-> FALSE, final |-> EmptyUrl]
ListIter(recs, final) ==
    [kind |-> "list", items |-> recs, parsed |-> FALSE, left |-> 0,
     failed |-> FALSE, final |-> final]
NewGenerator ==
    [kind |-> "gen", items |-> <<>>, parsed |-> FALSE, left |-> 0,
     failed |-> FALSE, final |-> EmptyUrl]

Event(ev, src, rec, exc, nf, final) ==
    [ev |-> ev, src |-> src, rec |-> rec, exc |-> exc, nf |-> nf,
     final |-> final]

\* no helper function is being applied on its own
NoCall == [fn |-> "none", arg |-> <<>>, done |-> FALSE, result |-> <<>>]

\* main() before its first statement: nothing collected, nothing printed
Fresh ==
    /\ gens = <<>>
    /\ idx = 1
    /\ pc = "Idle"
    /\ cur = NoIter
    /\ collected = <<>>
    /\ seen_urls = {}
    /\ exit = "none"
    /\ output = [summary |-> <<>>, warning |-> FALSE, rows |-> <<>>]
    /\ candidates = {}
    /\ contributors = {}
    /\ invoked = <<>>
    /\ last = Event("init", "", <<>>, "none", 0, EmptyUrl)

Init ==
    /\ variant \in Variants
    /\ \E n \in NValues : goal = Target(variant, n)
    /\ registry \in
          {S \in SUBSET SourceIds(variant) : Cardinality(S) = NumSources}
    /\ call = NoCall
    /\ Fresh

\* mutant: the order drawn with repetition (random.choices)
Shuffles_Repeating(S) == [1..Cardinality(S) -> S]

\* random.shuffle: every order of the producers
Shuffles(S) ==
    {p \in [1..Cardinality(S) -> S] : \A i, j \in 1..Cardinality(S) :
        p[i] = p[j] => i = j}

\* build_generators(), or the first part of main() in orig and fixed
Start ==
    /\ pc = "Idle"
    /\ gens' \in Shuffles(registry)
    /\ pc' = "Loop"
    /\ last' = Event("start", "", <<>>, "none", 0, EmptyUrl)
    /\ UNCHANGED <<static, invoked, contributors, idx, cur, collected,
                   seen_urls, exit, output, candidates>>

(***************************************************************************)
(* The body of the inner loop.                                             *)
(***************************************************************************)
\* mutant: the test of the URL dropped from the condition
UrlSeen_Never(url, seen) == FALSE

UrlSeen(url, seen) == url \in seen

\* mutant: the test of the domain dropped from the condition
DomainSeen_Never(url, seen) == FALSE

\* mutant: the set of seen domains tested for being non-empty
DomainSeen_AnySeen(url, seen) == seen # {}

DomainSeen(url, seen) == domain(url) \in {domain(u) : u \in seen}

\* mutant: the length gate of the loop dropped
TooShort_Never(paragraph) == FALSE

\* v2, line 246: the record is skipped for its length
TooShort(paragraph) == Len(paragraph) < MIN_PARAGRAPH_LEN

\* orig and fixed: the record is taken only with more than twenty words
EnoughWords(paragraph) == WordCount(paragraph) > MIN_WORDS

\* whether the body of the loop appends the record
Accepts(v, rec, seen) ==
    IF v = "v2"
    THEN /\ ~(UrlSeen(rec[3], seen) \/ DomainSeen(rec[3], seen))
         /\ ~TooShort(rec[1])
    ELSE ~UrlSeen(rec[3], seen) /\ EnoughWords(rec[1])

\* mutant: the URL is marked seen before the record is tested
SeenAfterSkip_Marked(seen, url) == seen \cup {url}

\* the continue of the loop of main(): a record that is skipped leaves
\* seen_urls as it is
SeenAfterSkip(seen, url) == seen

\* mutant: the loop stops one record late
QuotaHit_Late(n, g) == n > g

\* the test after an append that raises StopIteration
QuotaHit(n, g) == n >= g

\* one pass of the body on the record rec the producer id handed over, the
\* iterator being it afterwards; nf fetches were made to produce rec, the
\* last of them ended at final
Body(id, rec, it, nf, final) ==
    /\ candidates' = IF Len(rec[1]) >= MIN_PARAGRAPH_LEN
                      THEN candidates \cup {rec[3]} ELSE candidates
    /\ IF Accepts(variant, rec, seen_urls)
       THEN /\ collected' = Append(collected, rec)
            /\ seen_urls' = seen_urls \cup {rec[3]}
            /\ contributors' = contributors \cup {id}
            /\ last' = Event("accept", id, rec, "none", nf, final)
            /\ IF QuotaHit(Len(collected) + 1, goal)
               THEN /\ pc' = "Report"
                    /\ exit' = "break"
                    /\ cur' = it
               ELSE /\ cur' = it
                    /\ UNCHANGED <<pc, exit>>
       ELSE /\ last' = Event("skip", id, rec, "none", nf, final)
            /\ cur' = it
            /\ seen_urls' = SeenAfterSkip(seen_urls, rec[3])
            /\ UNCHANGED <<collected, contributors, pc, exit>>
    /\ UNCHANGED <<static, invoked, gens, idx, output>>

\* an exception reaches the try of main(): StopIteration leaves the loop,
\* every other Exception goes on with the next producer (invoked is left to
\* the step the exception comes from)
Handle(id, e, nf) ==
    /\ last' = Event("raise", id, <<>>, e, nf, EmptyUrl)
    /\ cur' = NoIter
    /\ IF e = "StopIteration"
       THEN pc' = "Report" /\ exit' = "break" /\ idx' = idx
       ELSE pc' = "Loop" /\ exit' = exit /\ idx' = idx + 1
    /\ UNCHANGED <<static, contributors, gens, collected, seen_urls, output,
                   candidates>>

(***************************************************************************)
(* The steps of the two loops.                                             *)
(***************************************************************************)
\* gen() at the head of the inner for: a list producer runs its adapter now,
\* a feed producer only creates its generator
Invoke ==
    /\ pc = "Loop"
    /\ idx <= Len(gens)
    /\ invoked' = Append(invoked, gens[idx])
    /\ LET id == gens[idx]
       IN IF Sources[id].kind = "rss"
          THEN /\ cur' = NewGenerator
               /\ pc' = "Drain"
               /\ last' = Event("invoke", id, <<>>, "none", 0, EmptyUrl)
               /\ UNCHANGED <<static, contributors, gens, idx, collected,
                              seen_urls, exit, output, candidates>>
          ELSE \E res \in InvokeTable[variant][id] :
                  IF res.exc # "none"
                  THEN Handle(id, res.exc, res.n)
                  ELSE /\ cur' = ListIter(res.recs, res.final)
                       /\ pc' = "Drain"
                       /\ last' = Event("invoke", id, <<>>, "none", res.n,
                                        res.final)
                       /\ UNCHANGED <<static, contributors, gens, idx,
                                      collected, seen_urls, exit, output,
                                      candidates>>

\* what leaves a generator whose body raises e: a StopIteration raised inside
\* a generator is turned into a RuntimeError
GeneratorRaise(e) == IF e = "StopIteration" THEN "Exception" ELSE e

\* the first next() of a feed generator runs feedparser.parse, outside the try
\* of the generator: it raises, or gives the entries of the feed
FeedParse ==
    /\ pc = "Drain"
    /\ cur.kind = "gen"
    /\ ~cur.parsed
    /\ UNCHANGED invoked
    /\ \/ \E e \in ExcKinds : Handle(gens[idx], GeneratorRaise(e), 1)
       \/ \E n \in 0..MaxEntries :
             /\ cur' = [cur EXCEPT !.parsed = TRUE, !.left = n]
             /\ last' = Event("parse", gens[idx], <<>>, "none", 1, EmptyUrl)
             /\ UNCHANGED <<static, contributors, gens, idx, pc, collected,
                            seen_urls, exit, output, candidates>>

\* mutant: a failing entry ends the loop over the entries (break)
AfterSkip_Abandon(it) == [it EXCEPT !.left = 0]

\* the continue of paragraphs_from_rss: the generator, with the entry consumed,
\* goes on with the entries that are left
AfterSkip(it) == it

\* the next entry of the feed: it is skipped inside the generator, or its
\* record is yielded and the body of the loop of main() runs on it
FeedEntry ==
    /\ pc = "Drain"
    /\ cur.kind = "gen"
    /\ cur.parsed
    /\ cur.left > 0
    /\ \E res \in EntryTable[variant][gens[idx]] :
          LET id == gens[idx]
              it == [cur EXCEPT !.left = cur.left - 1]
          IN IF res.recs = <<>>
             THEN /\ cur' = AfterSkip([it EXCEPT !.failed =
                                           @ \/ res.why # "nolink"])
                  /\ last' = Event("item_skip", id, <<>>, res.why, res.n, EmptyUrl)
                  /\ UNCHANGED <<static, invoked, contributors, gens, idx,
                                 pc, collected, seen_urls, exit, output,
                                 candidates>>
             ELSE Body(id, res.recs[1], it, res.n, res.final)

\* the next element of the list a list producer returned
PullList ==
    /\ pc = "Drain"
    /\ cur.kind = "list"
    /\ cur.items # <<>>
    /\ Body(gens[idx], Head(cur.items), ListIter(Tail(cur.items), cur.final),
            0, cur.final)

IterDone(it) ==
    IF it.kind = "list" THEN it.items = <<>> ELSE it.parsed /\ it.left = 0

\* the iterator is exhausted: the inner for ends and the outer goes on
Exhausted ==
    /\ pc = "Drain"
    /\ IterDone(cur)
    /\ idx' = idx + 1
    /\ pc' = "Loop"
    /\ cur' = NoIter
    /\ last' = Event("exhausted", gens[idx], <<>>, "none", 0, EmptyUrl)
    /\ UNCHANGED <<static, invoked, contributors, gens, collected,
                   seen_urls, exit, output, candidates>>

\* the outer for has no producer left
LoopEnd ==
    /\ pc = "Loop"
    /\ idx > Len(gens)
    /\ pc' = "Report"
    /\ exit' = "exhausted"
    /\ last' = Event("loop_end", "", <<>>, "none", 0, EmptyUrl)
    /\ UNCHANGED <<static, invoked, contributors, gens, idx, cur, collected,
                   seen_urls, output, candidates>>

\* mutant: the warning also when the quota is exactly met
Shortfall_OffByOne(n, g) == n <= g

\* the test of the warning: fewer records than asked for
Shortfall(n, g) == n < g

\* after the loop: the summary, the CSV, the warning
Report ==
    /\ pc = "Report"
    /\ output' = [summary |-> <<Len(collected), goal>>,
                  warning |-> Shortfall(Len(collected), goal),
                  rows |-> collected]
    /\ pc' = "Done"
    /\ last' = Event("report", "", <<>>, "none", 0, EmptyUrl)
    /\ UNCHANGED <<static, invoked, contributors, gens, idx, cur, collected,
                   seen_urls, exit, candidates>>

Next ==
    \/ Start
    \/ Invoke
    \/ FeedParse
    \/ FeedEntry
    \/ PullList
    \/ Exhausted
    \/ LoopEnd
    \/ Report

Spec == Init /\ [][Next]_vars

\* main() is sequential code: a step that can be taken is taken
FairSpec == Spec /\ WF_vars(Next)

(***************************************************************************)
(* The end-to-end scenario: v2 run with --n 2 on a registry of three feeds *)
(* whose sites behave as the scenario says.  Feed A has two entries whose  *)
(* pages give a paragraph each, at two different URLs; feed B has one      *)
(* entry whose page has no paragraph of the minimum length; every fetch of *)
(* an entry of feed C fails.                                               *)
(***************************************************************************)
FeedA == "rssNoticia"
FeedB == "rssBlog"
FeedC == "rssNoticia2"

E2EInit ==
    /\ variant = "v2"
    /\ goal = Target("v2", 2)
    /\ registry = {FeedA, FeedB, FeedC}
    /\ call = NoCall
    /\ Fresh

\* how many entries the feed of the scenario has
ScenarioEntries(id) ==
    IF id = FeedA THEN {2} ELSE IF id = FeedB THEN {1} ELSE 1..MaxEntries

\* what the step ev on an entry of the feed may be in the scenario, seen being
\* the URLs of the long records handed over so far
ScenarioServes(id, ev, seen) ==
    IF id = FeedA
    THEN /\ ev.ev \in {"accept", "skip"}
         /\ Len(ev.rec[1]) >= MIN_PARAGRAPH_LEN
         /\ ev.rec[3] \notin seen
    ELSE IF id = FeedB
    THEN ev.ev = "item_skip" /\ ev.exc = "noparagraph"
    ELSE ev.ev = "item_skip" /\ ev.exc = "exception"

E2EFeedParse ==
    /\ FeedParse
    /\ last'.ev = "parse"
    /\ cur'.left \in ScenarioEntries(gens[idx])

E2EFeedEntry ==
    /\ FeedEntry
    /\ ScenarioServes(gens[idx], last', candidates)

E2ENext ==
    \/ Start
    \/ Invoke
    \/ E2EFeedParse
    \/ E2EFeedEntry
    \/ Exhausted
    \/ LoopEnd
    \/ Report

E2ESpec == E2EInit /\ [][E2ENext]_vars

(***************************************************************************)
(* The helper functions applied on their own: first_long_paragraph on a    *)
(* text and a minimum length, the domain test of the loop on a URL and a   *)
(* set of seen URLs.                                                       *)
(***************************************************************************)
\* the pieces the texts are put together from: words, a padded word, two
\* lines of one paragraph
TextPieces ==
    { <<"a">>, <<"a", "b">>, <<" ", "a", "b", "c", "\t">>, <<"a", NL, "b">> }

\* what stands between two pieces: a blank line, a line of blanks, two blank
\* lines
TextSeps == { <<NL, NL>>, <<NL, " ", NL>>, <<NL, NL, "\t", NL>> }

RECURSIVE TextsOf(_)
\* the texts of n pieces
TextsOf(n) ==
    IF n = 1 THEN TextPieces
    ELSE {t \o sep \o piece :
             t \in TextsOf(n - 1), sep \in TextSeps, piece \in TextPieces}

Texts == UNION {TextsOf(n) : n \in 1..MaxPieces}

\* the minimum lengths tried on the texts above
MinLens == {1, 2, 3}

\* the example of the extractor: a short block, a blank line, a long block
ShortThenLong == <<"s", "h", "o", "r", "t", NL, NL>> \o A120

\* URLs with no registrable domain: no host at all, or a host that ends in no
\* public suffix
HostlessUrls == { Url(<<>>, <<"wiki", "X">>), Url(<<>>, <<"wiki", "Y">>) }
AddressUrls == { Url(<<"10.0.0.5">>, <<"a">>), Url(<<"10.0.0.5">>, <<"b">>) }
TestUrls == Links \cup HostlessUrls \cup AddressUrls

\* the pages the feed adapter is applied to: those the network serves in a
\* run, and pages with a long paragraph behind a short or an empty one
PageBodies ==
    HtmlBodies \cup { <<A60, W21>>, <<W21, A120>>, <<A60, <<>>, A120>> }

Pending(fn, arg) == [fn |-> fn, arg |-> arg, done |-> FALSE, result |-> <<>>]

CallInit ==
    /\ \/ /\ variant \in Variants
          /\ \/ \E t \in Texts, m \in MinLens :
                   call = Pending("first_long_paragraph", <<t, m>>)
             \/ call = Pending("first_long_paragraph",
                               <<ShortThenLong, MIN_PARAGRAPH_LEN>>)
       \/ /\ variant = "v2"
          /\ \/ \E u \in TestUrls, seen \in SUBSET TestUrls :
                   call = Pending("DomainSeen", <<u, seen>>)
             \/ \E link \in Links :
                   \E resp \in Fetches(link, PageBodies, FinalsOf(link)) :
                      call = Pending("rss_entry", <<link, resp>>)
    /\ goal = Target(variant, 0)
    /\ registry = {}
    /\ Fresh

\* paragraph = first_long_paragraph(text, min_len)
ApplyFirstLong ==
    /\ call.fn = "first_long_paragraph"
    /\ ~call.done
    /\ call' = [call EXCEPT
                  !.done = TRUE,
                  !.result = first_long_paragraph(variant, call.arg[1],
                                                  call.arg[2])]
    /\ UNCHANGED <<variant, goal, registry, gens, idx, pc, cur, collected,
                   seen_urls, exit, output, candidates, contributors, invoked,
                   last>>

\* domain(url) in {domain(u) for u in seen_urls}
ApplyDomainSeen ==
    /\ call.fn = "DomainSeen"
    /\ ~call.done
    /\ call' = [call EXCEPT
                  !.done = TRUE,
                  !.result = DomainSeen(call.arg[1], call.arg[2])]
    /\ UNCHANGED <<variant, goal, registry, gens, idx, pc, cur, collected,
                   seen_urls, exit, output, candidates, contributors, invoked,
                   last>>

\* the body of the loop of paragraphs_from_rss on one entry of a "noticia"
\* feed: the records it yields
ApplyRssEntry ==
    /\ call.fn = "rss_entry"
    /\ ~call.done
    /\ call' = [call EXCEPT
                  !.done = TRUE,
                  !.result = rss_entry(variant, "noticia", call.arg[1],
                                       call.arg[2])]
    /\ UNCHANGED <<variant, goal, registry, gens, idx, pc, cur, collected,
                   seen_urls, exit, output, candidates, contributors, invoked,
                   last>>

CallNext ==
    \/ ApplyFirstLong
    \/ ApplyDomainSeen
    \/ ApplyRssEntry

CallSpec == CallInit /\ [][CallNext]_vars

(***************************************************************************)
(* Properties.                                                             *)
(***************************************************************************)
Urls(recs) == {recs[i][3] : i \in 1..Len(recs)}

UrlOf(rec) == rec[3]
DomainOf(rec) == domain(rec[3])

DistinctUrls(recs) ==
    \A i, j \in 1..Len(recs) : i # j => UrlOf(recs[i]) # UrlOf(recs[j])

DistinctDomains(recs) ==
    \A i, j \in 1..Len(recs) : i # j => DomainOf(recs[i]) # DomainOf(recs[j])

\* the size of the result has reached the quota
QuotaMet == Len(collected) >= goal

\* the terminal states of the run
QuotaReached == pc = "Done" /\ exit = "break" /\ QuotaMet
SourcesExhausted == pc = "Done" /\ exit = "exhausted" /\ idx > Len(gens)

\* the run ends
Termination == <>(pc = "Done")

\* C1: in every reachable state of a run of any variant, no two records of
\* collected have the same URL.
C1_DistinctUrls == DistinctUrls(collected)

\* C1 witness: a record of sufficient length was handed over whose URL had
\* already been accepted, and it was skipped.
C1_Witness ==
    /\ last.ev = "skip"
    /\ variant # "v2"
    /\ EnoughWords(last.rec[1])
    /\ last.rec[3] \in Urls(collected)

\* C2: in v2, in every reachable state no two accepted records have URLs of
\* the same registrable domain under domain(url).
C2_DistinctDomains == variant = "v2" => DistinctDomains(collected)

\* C2 witness: in v2 a long enough record with a new URL on an already accepted
\* domain was handed over and skipped.
C2_Witness ==
    /\ variant = "v2"
    /\ last.ev = "skip"
    /\ ~TooShort(last.rec[1])
    /\ last.rec[3] \notin Urls(collected)
    /\ \E i \in 1..Len(collected) : DomainOf(collected[i]) = DomainOf(last.rec)

\* C3: the size of the result never exceeds the quota N, and the loop is left
\* with the append that makes the size equal to N.
C3_QuotaBound ==
    /\ Len(collected) <= goal
    /\ (last.ev = "accept" /\ Len(collected) = goal) => pc = "Report"

\* C4: in every reachable state, in every variant, every accepted record has a
\* text of at least MIN_PARAGRAPH_LEN characters.
C4_MinLength ==
    \A i \in 1..Len(collected) : Len(collected[i][1]) >= MIN_PARAGRAPH_LEN

\* C4 witness: with a record already accepted, a producer hands over a record
\* whose text is shorter than the minimum and whose URL is new; it is skipped.
C4_Witness ==
    /\ Len(collected) >= 1
    /\ last.ev = "skip"
    /\ Len(last.rec[1]) < MIN_PARAGRAPH_LEN
    /\ last.rec[3] \notin Urls(collected)

UniqueQualifying ==
    IF variant = "v2" THEN Cardinality({domain(u) : u \in candidates})
    ELSE Cardinality(candidates)

\* C6: when the run has ended, the result holds exactly N records whenever the
\* producers had at least N unique qualifying candidates.
C6_QuotaFilled ==
    (pc = "Done" /\ UniqueQualifying >= goal) => Len(collected) = goal

\* C7: a producer that fails contributes no record and does not stop the run:
\* the loop goes on with the next producer.
C7_FailureIsolated ==
    [][last'.ev = "raise" =>
          /\ collected' = collected
          /\ seen_urls' = seen_urls
          /\ pc' = "Loop"
          /\ idx' = idx + 1]_vars

\* C8: whatever a source adapter raises, the loop over the producers is left
\* by break only when the size of the result has reached the quota.
C8_BreakOnlyOnQuota == exit = "break" => QuotaMet

\* C9: a run that has ended is in exactly one of the terminal states
\* QuotaReached and SourcesExhausted.
C9_TerminalState ==
    pc = "Done" => (QuotaReached \/ SourcesExhausted)
                   /\ ~(QuotaReached /\ SourcesExhausted)

\* C10: the run ends normally with its result saved, the warning is printed
\* exactly when the final size is below the quota, and a run that exhausted
\* its producers below the quota reports achieved < requested with a warning.
C10_Warning ==
    pc = "Done" =>
        /\ output.rows = collected
        /\ output.summary = <<Len(collected), goal>>
        /\ output.warning <=> Len(collected) < goal
        /\ (exit = "exhausted" /\ ~QuotaMet) =>
               (output.warning /\ output.summary[1] < output.summary[2])

\* C10 witness: all producers were consulted, some but fewer than N records
\* were accepted, and the run ended with the warning.
C10_Witness ==
    /\ pc = "Done"
    /\ exit = "exhausted"
    /\ Len(collected) >= 1
    /\ Len(collected) < goal
    /\ output.warning

\* no two of the URLs are of the same registrable domain
DomainsApart(urls) ==
    \A u, w \in urls : u # w => domain(u) # domain(w)

\* C11 (as amended): in the scenario, when the two URLs of feed A are of
\* different registrable domains, then for every shuffle order the run does
\* not get stuck and ends in QuotaReached with exactly the two records of A,
\* achieved == 2 == requested and no warning.
C11_ScenarioApart ==
    /\ pc # "Done" => ENABLED E2ENext
    /\ (pc = "Done" /\ DomainsApart(candidates)) =>
          /\ QuotaReached
          /\ Len(collected) = 2
          /\ Urls(collected) = candidates
          /\ contributors = {FeedA}
          /\ output.summary = <<2, 2>>
          /\ ~output.warning

\* C11 witness: feed A was consulted last, after B and C gave nothing, and
\* its two records filled the quota.
C11_Witness ==
    /\ pc = "Done"
    /\ gens[3] = FeedA
    /\ exit = "break"
    /\ Len(collected) = 2
    /\ contributors = {FeedA}

\* C11 (as stated): in the scenario, for every shuffle order the run ends in
\* QuotaReached with exactly the two records of A and achieved == 2.
C11_Scenario ==
    pc = "Done" =>
        /\ QuotaReached
        /\ Len(collected) = 2
        /\ contributors = {FeedA}
        /\ output.summary = <<2, 2>>

\* the kinds of adapters that fetch one fixed document, and those that ask an
\* endpoint for a random one
SingleDocument == {"gutenberg", "cervantes", "wikisource"}
RandomEndpoint == {"wikipedia", "cuento"}

\* the loop has just been handed a record by a producer of one of the kinds
HandedBy(kinds) ==
    /\ last.ev \in {"accept", "skip"}
    /\ Sources[last.src].kind \in kinds

\* C12: a single-document adapter (Gutenberg, Cervantes, Wikisource) never
\* hands the loop a record whose text is empty or shorter than the minimum
\* length: when no paragraph qualifies it raises instead.
C12_SingleDocumentFails ==
    HandedBy(SingleDocument) => Len(last.rec[1]) >= MIN_PARAGRAPH_LEN

\* C13: a random-endpoint adapter (Wikipedia summary, short story) gives at
\* most one record per call, and raises instead of returning a record when no
\* qualifying paragraph or no URL can be obtained.
C13_RandomEndpointFails ==
    /\ (cur.kind = "list" /\ Sources[gens[idx]].kind \in RandomEndpoint) =>
          Len(cur.items) <= 1
    /\ HandedBy(RandomEndpoint) =>
          /\ Len(last.rec[1]) >= MIN_PARAGRAPH_LEN
          /\ last.rec[3] # EmptyUrl

\* the steps of paragraphs_from_rss on one entry
EntrySteps == {"item_skip", "accept", "skip"}

\* C14: in the feed adapter a failure on one entry (no 200, an exception of
\* the fetch or the parsing, no qualifying paragraph) skips that entry only:
\* nothing else changes, and while entries are left the next step is the
\* next entry of the same feed, fetched if it has a link.
C14_ItemSkipOnly ==
    [][/\ last'.ev = "item_skip" =>
             /\ pc' = "Drain"
             /\ idx' = idx
             /\ cur'.kind = "gen"
             /\ cur'.left = cur.left - 1
             /\ collected' = collected
             /\ seen_urls' = seen_urls
       /\ (last.ev = "item_skip" /\ cur.left > 0) =>
             /\ last'.ev \in EntrySteps
             /\ last'.src = last.src
             /\ last'.nf = 1 \/ last'.exc = "nolink"]_vars

\* C14 witness: an entry of the feed failed (its fetch raised, or the status
\* was not 200, or its page had no paragraph), and a later entry of the same
\* feed was fetched and its record accepted.
C14_Witness ==
    /\ last.ev = "accept"
    /\ cur.kind = "gen"
    /\ cur.failed
    /\ last.nf = 1

\* a URL tldextract finds no public suffix in: it has no registrable domain
Unparsable(url) == Extract(url).suffix = ""

\* C15: for a URL whose registrable domain cannot be parsed the whole URL is
\* the domain key: the domain test of the loop finds it seen only when that
\* very URL is among the seen ones.
C15_WholeUrlKey ==
    (call.fn = "DomainSeen" /\ call.done /\ Unparsable(call.arg[1])) =>
        (call.result <=> call.arg[1] \in call.arg[2])

\* C16: the URL of an accepted record is the URL the fetch of its document
\* ended at after any redirect, not the URL that was requested.
C16_FinalUrl == last.ev = "accept" => last.rec[3] = last.final

\* C17: orig and fixed extract 100 paragraphs: a run that has ended reports
\* against a quota of 100, holds at most 100 records and has warned exactly
\* when it holds fewer than 100.
C17_Hundred ==
    (pc = "Done" /\ variant \in {"orig", "fixed"}) =>
        /\ output.summary[2] = DOCUMENTED_TARGET
        /\ Len(collected) <= DOCUMENTED_TARGET
        /\ output.warning <=> Len(collected) < DOCUMENTED_TARGET

\* position k of the text lies in a blank-line boundary: between two line
\* breaks (or on one of them) with nothing but whitespace between them
InBoundary(t, k) ==
    /\ t[k] \in WS
    /\ \E i \in 1..k, j \in k..Len(t) :
          /\ i < j
          /\ t[i] = NL
          /\ t[j] = NL
          /\ \A x \in i..j : t[x] \in WS

\* the blocks of the text as pairs (first, last) of positions: the maximal
\* stretches that touch no boundary
BlockSpans(t) ==
    LET inside == {k \in 1..Len(t) : ~InBoundary(t, k)}
        firsts == {a \in inside : a = 1 \/ a - 1 \notin inside}
        lasts == {b \in inside : b = Len(t) \/ b + 1 \notin inside}
    IN {<<a, SetMin({b \in lasts : b >= a})>> : a \in firsts}

\* the block without the whitespace at its ends, as a pair of positions
\* (first > last when the block is all whitespace)
Trimmed(t, sp) ==
    LET solid == {k \in sp[1]..sp[2] : t[k] \notin WS}
    IN IF solid = {} THEN <<sp[1], sp[1] - 1>>
       ELSE <<SetMin(solid), SetMax(solid)>>

TrimmedLen(t, sp) == Trimmed(t, sp)[2] - Trimmed(t, sp)[1] + 1

\* C18: first_long_paragraph(text, min_len) of v2 returns the first of the
\* blocks between blank-line boundaries whose trimmed length is min_len or
\* more, trimmed; it returns the empty text when no block qualifies.
C18_FirstLongBlock ==
    (call.fn = "first_long_paragraph" /\ call.done /\ variant = "v2") =>
        LET t == call.arg[1]
            long == {sp \in BlockSpans(t) : TrimmedLen(t, sp) >= call.arg[2]}
            first == CHOOSE sp \in long : \A o \in long : sp[1] <= o[1]
        IN IF long = {} THEN call.result = <<>>
           ELSE call.result =
                    SubSeq(t, Trimmed(t, first)[1], Trimmed(t, first)[2])

\* C18 witness: the function was applied to a text whose first block is too
\* short and whose second block is long enough, and returned the second.
C18_Witness ==
    /\ call.fn = "first_long_paragraph"
    /\ call.done
    /\ variant = "v2"
    /\ call.arg = <<ShortThenLong, MIN_PARAGRAPH_LEN>>
    /\ call.result = A120

\* C19: in every variant a record handed to the loop is accepted (appended,
\* its URL marked seen) exactly when its URL is not yet seen and, in v2, its
\* domain is not yet seen, and its text has MIN_PARAGRAPH_LEN characters or
\* more.
C19_AcceptCriteria ==
    [][last'.ev \in {"accept", "skip"} =>
          LET rec == last'.rec
              qualifies ==
                  /\ rec[3] \notin seen_urls
                  /\ variant = "v2" =>
                        domain(rec[3]) \notin {domain(u) : u \in seen_urls}
                  /\ Len(rec[1]) >= MIN_PARAGRAPH_LEN
          IN /\ last'.ev = "accept" <=> qualifies
             /\ last'.ev = "accept" =>
                   /\ collected' = Append(collected, rec)
                   /\ seen_urls' = seen_urls \cup {rec[3]}
             /\ last'.ev = "skip" => UNCHANGED <<collected, seen_urls>>]_vars

\* C20: after a producer has signalled a failure the result holds no record
\* of that producer and the loop is at the next producer of the shuffled
\* order.
C20_FailedProducerYieldsNothing ==
    last.ev = "raise" =>
        /\ last.src \notin contributors
        /\ pc = "Loop"
        /\ exit = "none"
        /\ idx >= 2
        /\ gens[idx - 1] = last.src

\* C21: the text of a record the v2 feed adapter yields is the cleaned text
\* of one <p> element of the fetched page, the first whose own length is
\* MIN_PARAGRAPH_LEN or more; it is never several shorter paragraphs put
\* together.
C21_OneParagraph ==
    (call.fn = "rss_entry" /\ call.done /\ call.result # <<>>) =>
        LET body == call.arg[2].body
            long == {i \in 1..Len(body) : Len(body[i]) >= MIN_PARAGRAPH_LEN}
        IN /\ long # {}
           /\ call.result[1][1] = body[SetMin(long)]

\* the record handed over is rejected for its short text alone: neither its
\* URL nor, in v2, its domain is among the seen ones
ShortOnly(rec, seen) ==
    /\ Len(rec[1]) < MIN_PARAGRAPH_LEN
    /\ ~UrlSeen(rec[3], seen)
    /\ variant = "v2" => ~DomainSeen(rec[3], seen)

\* C22: a step that skips a record leaves the result and the seen set exactly
\* as they were; after a record was skipped for its short text alone, a
\* qualifying record of the same URL would still be accepted.
C22_SkipChangesNothing ==
    [][last'.ev = "skip" =>
          /\ collected' = collected
          /\ seen_urls' = seen_urls
          /\ contributors' = contributors
          /\ exit' = exit
          /\ ShortOnly(last'.rec, seen_urls) =>
                Accepts(variant, <<W21, last'.rec[2], last'.rec[3]>>,
                        seen_urls')]_vars

\* C22 witness: in v2, with records already accepted, a record of a new URL
\* and a new domain was skipped for its short text.
C22_Witness ==
    /\ variant = "v2"
    /\ last.ev = "skip"
    /\ seen_urls # {}
    /\ ShortOnly(last.rec, seen_urls)

\* how often the producer was called in this run
TimesInvoked(id) == Cardinality({i \in 1..Len(invoked) : invoked[i] = id})

\* C23: the shuffled order is a permutation of the registry: every configured
\* source is called at most once in a run, and exactly once when the run has
\* ended in SourcesExhausted.
C23_EachSourceOnce ==
    /\ pc # "Idle" =>
          /\ Len(gens) = Cardinality(registry)
          /\ \A id \in registry : \E i \in 1..Len(gens) : gens[i] = id
    /\ \A i \in 1..Len(invoked) : invoked[i] \in registry
    /\ \A id \in registry : TimesInvoked(id) <= 1
    /\ SourcesExhausted => \A id \in registry : TimesInvoked(id) = 1

\* C23 witness: the run ended in SourcesExhausted after a producer had failed
\* and another had given a record.
C23_Witness ==
    /\ SourcesExhausted
    /\ contributors # {}
    /\ contributors # registry
    /\ Len(invoked) = NumSources

\* C24: every accepted record carries the label configured for the source
\* it came from (the group of RSS_SOURCES for a feed, the label of the adapter
\* otherwise), whatever the shuffled order and whatever was built after it.
C24_ConfiguredLabel ==
    last.ev = "accept" =>
        /\ last.rec[2] = Sources[last.src].tipo
        /\ collected[Len(collected)][2] = Sources[last.src].tipo

\* C24 witness: a record of the "noticia" feed is accepted in a run in which
\* the "blog" feed, built after it, was shuffled before it.
C24_Witness ==
    /\ last.ev = "accept"
    /\ last.src = "rssNoticia"
    /\ last.rec[2] = "noticia"
    /\ gens = <<"rssBlog", "rssNoticia">>

====
